---- MODULE Spec2Model ----
(***************************************************************************)
(* iNES / NES 2.0 header parsing and cartridge loading of SamsoftEmu NES.  *)
(* Two parser variants are modelled side by side:                          *)
(*   v1.1  parse_ines_file        (src/####samsoftnesemu4k.py)              *)
(*   v2.0  INESHeader.from_path   (src/samsoftnesv0.py)                     *)
(* A file is the sequence of its bytes.  Python's None is the empty        *)
(* sequence <<>> and a present optional value v is <<v>>.  A str is the    *)
(* sequence of its characters.                                             *)
(* Three specifications share the module: Spec runs the two parsers on a   *)
(* file, FmtSpec runs the two size formatters on a byte count, and GuiSpec *)
(* is a session of the two GUI front ends.                                 *)
(***************************************************************************)
EXTENDS Integers, Sequences, FiniteSets, TLC

VARIABLES
    \* the parsers: the bytes of the file, the outcome of parse_ines_file and
    \* its decoded header, the outcome of INESHeader.from_path
    data, out1, locals1, out2,
    \* the formatters: the byte count, the str of _fmt_size and of _format_bytes
    byte_count, fmt1, fmt2,
    \* the v1.1 GUI: self.rom_path, self.cartridge, self.is_running, self.status_var
    rom_path_v1, cartridge_v1, is_running_v1, status_v1,
    \* the v2.0 GUI: self.rom_path, self.ines_header, self.is_running, self.status_var
    rom_path_v2, ines_header_v2, is_running_v2, status_v2,
    \* the handler that ran last, with the answer of its file dialog
    event

parseVars == <<data, out1, locals1, out2>>
fmtVars == <<byte_count, fmt1, fmt2>>
gui1Vars == <<rom_path_v1, cartridge_v1, is_running_v1, status_v1>>
gui2Vars == <<rom_path_v2, ines_header_v2, is_running_v2, status_v2>>
guiVars == <<gui1Vars, gui2Vars, event>>

vars == <<parseVars, fmtVars, guiVars>>

----------------------------------------------------------------------------
(* Bounds of the explored inputs.                                          *)

\* largest PRG-ROM unit count (header byte 4) of the files with a body
MaxPrgUnits == 1
\* largest CHR-ROM unit count (header byte 5) of the files with a body
MaxChrUnits == 1
\* number of bytes that may follow the CHR-ROM range
MaxExtra == 1

----------------------------------------------------------------------------
(* Python's integer and bytes operations.                                  *)

Min(a, b) == IF a < b THEN a ELSE b

RECURSIVE BitAnd(_, _)
\* a & b on non-negative integers
BitAnd(a, b) ==
    IF a = 0 \/ b = 0 THEN 0
    ELSE (a % 2) * (b % 2) + 2 * BitAnd(a \div 2, b \div 2)

RECURSIVE BitOr(_, _)
\* a | b on non-negative integers
BitOr(a, b) ==
    IF a = 0 THEN b
    ELSE IF b = 0 THEN a
    ELSE (IF a % 2 = 1 \/ b % 2 = 1 THEN 1 ELSE 0) + 2 * BitOr(a \div 2, b \div 2)

\* a << n
Shl(a, n) == a * (2 ^ n)
\* a >> n
Shr(a, n) == a \div (2 ^ n)

\* s[lo:hi] of a bytes object (0-based, clamped to the length, never an error)
Slice(s, lo, hi) == SubSeq(s, Min(lo, Len(s)) + 1, Min(hi, Len(s)))
\* s[i] of a bytes object (0-based)
At(s, i) == s[i + 1]

\* the outcome of a call: an exception raised, or a value returned
Raise(exc, msg) == [kind |-> "raise", exc |-> exc, msg |-> msg]
Return(v) == [kind |-> "return", value |-> v]
\* the call has not been made
NotCalled == [kind |-> "none"]

\* b"NES\x1A"
Magic == <<78, 69, 83, 26>>

----------------------------------------------------------------------------
(* v1.1: src/####samsoftnesemu4k.py                                         *)

MAPPER_NAMES ==
    (0 :> "NROM") @@ (1 :> "MMC1 (SxROM)") @@ (2 :> "UNROM (UxROM)") @@
    (3 :> "CNROM (CxROM)") @@ (4 :> "MMC3 (TxROM)") @@ (5 :> "MMC5 (ExROM)") @@
    (7 :> "AOROM (AxROM)") @@ (9 :> "MMC2 (PxROM)") @@ (10 :> "MMC4 (FxROM)") @@
    (11 :> "Color Dreams") @@ (13 :> "CPROM") @@ (15 :> "100-in-1") @@
    (66 :> "GxROM/MxROM") @@ (69 :> "FME-7 / Sunsoft 5") @@
    (71 :> "Camerica (BF909x)") @@ (73 :> "VRC3") @@ (75 :> "VRC1") @@
    (76 :> "VRC4") @@ (78 :> "Irem 74HC161/32") @@ (79 :> "NINA-003/006") @@
    (85 :> "VRC7") @@ (87 :> "VRC2") @@ (94 :> "HVC-UN1ROM") @@
    (118 :> "TxSROM") @@ (119 :> "TQROM") @@ (210 :> "Namco 129/163")

\* MAPPER_NAMES.get(mapper, "Unknown/Custom")
MapperName(mapper) ==
    IF mapper \in DOMAIN MAPPER_NAMES THEN MAPPER_NAMES[mapper] ELSE "Unknown/Custom"

\* _exp_to_size without the test for an exponent of zero
_exp_to_size_NoZero(exp) == Shl(64, exp)

\* _exp_to_size(exp)
_exp_to_size(exp) == IF exp = 0 THEN 0 ELSE Shl(64, exp)

\* format detection that tests bit 3 of flags7 alone
IsNes20_Bit3Only(flags7) == BitAnd(flags7, 8) # 0

\* is_nes20 = (flags7 & 0x0C) == 0x08
IsNes20_v1(flags7) == BitAnd(flags7, 12) = 8

\* the mapper number and the submapper decoded by parse_ines_file
Mapper_v1(flags6, flags7, flags8) ==
    LET mapper_low == BitOr(Shr(flags6, 4), BitAnd(flags7, 240))
    IN  IF IsNes20_v1(flags7)
        THEN BitOr(mapper_low, Shl(BitAnd(flags8, 15), 8))
        ELSE mapper_low

Submapper_v1(flags7, flags8) ==
    IF IsNes20_v1(flags7) THEN <<BitAnd(Shr(flags8, 4), 15)>> ELSE <<>>

\* prg_rom_size of parse_ines_file
PrgRomSize_v1(prg_units, flags7, flags9) ==
    IF IsNes20_v1(flags7)
    THEN BitOr(prg_units, Shl(BitAnd(flags9, 15), 8)) * 16 * 1024
    ELSE prg_units * 16 * 1024

\* chr_rom_size with the CHR extension nibble taken from the low nibble of byte 9
ChrRomSize_LowNibble(chr_units, flags7, flags9) ==
    IF IsNes20_v1(flags7)
    THEN BitOr(chr_units, Shl(BitAnd(flags9, 15), 8)) * 8 * 1024
    ELSE chr_units * 8 * 1024

\* chr_rom_size of parse_ines_file
ChrRomSize_v1(chr_units, flags7, flags9) ==
    IF IsNes20_v1(flags7)
    THEN BitOr(chr_units, Shl(BitAnd(flags9, 240), 4)) * 8 * 1024
    ELSE chr_units * 8 * 1024

\* prg_ram_size of parse_ines_file
PrgRamSize_v1(mapper, flags7, flags8, flags10) ==
    IF IsNes20_v1(flags7)
    THEN _exp_to_size(BitAnd(flags10, 15))
    ELSE IF flags8 # 0 THEN flags8 * 8 * 1024
         ELSE IF mapper \in {1, 4} THEN 8 * 1024 ELSE 0

\* chr_ram_size of parse_ines_file
ChrRamSize_v1(chr_rom_size, flags7, flags11) ==
    IF IsNes20_v1(flags7)
    THEN _exp_to_size(BitAnd(flags11, 15))
    ELSE IF chr_rom_size = 0 THEN 8 * 1024 ELSE 0

\* mirroring with bit 0 taking precedence over the four-screen bit
Mirroring_VerticalFirst(flags6) ==
    IF BitAnd(flags6, 1) # 0 THEN "Vertical"
    ELSE IF BitAnd(flags6, 8) # 0 THEN "Four-screen VRAM" ELSE "Horizontal"

\* mirroring of parse_ines_file
Mirroring_v1(flags6) ==
    LET vert_mirr == BitAnd(flags6, 1) # 0
        four_screen == BitAnd(flags6, 8) # 0
    IN  IF four_screen THEN "Four-screen VRAM"
        ELSE IF vert_mirr THEN "Vertical" ELSE "Horizontal"

\* vs_unisystem and playchoice10 of parse_ines_file
VsUnisystem_v1(flags7) == BitAnd(flags7, 1) # 0
Playchoice10_v1(flags7) == BitAnd(flags7, 2) # 0

\* tv_system of parse_ines_file
TvSystem_v1(flags7, flags9, flags12) ==
    IF IsNes20_v1(flags7)
    THEN LET tv_code == BitAnd(flags12, 3)
         IN  CASE tv_code = 0 -> "NTSC"
               [] tv_code = 1 -> "PAL"
               [] tv_code = 2 -> "Both (NTSC/PAL)"
               [] tv_code = 3 -> "Dendy/Reserved"
               [] OTHER -> "Unknown"
    ELSE IF BitAnd(flags9, 1) # 0 THEN "PAL" ELSE "NTSC"

\* the header fields that parse_ines_file decodes from the 16 header bytes into
\* its local variables, before the data offsets are computed
DecodeHeader_v1(header) ==
    LET prg_units == At(header, 4)
        chr_units == At(header, 5)
        flags6 == At(header, 6)
        flags7 == At(header, 7)
        flags8 == IF Len(header) >= 9 THEN At(header, 8) ELSE 0
        flags9 == IF Len(header) >= 10 THEN At(header, 9) ELSE 0
        flags10 == IF Len(header) >= 11 THEN At(header, 10) ELSE 0
        flags11 == IF Len(header) >= 12 THEN At(header, 11) ELSE 0
        flags12 == IF Len(header) >= 13 THEN At(header, 12) ELSE 0
        mapper == Mapper_v1(flags6, flags7, flags8)
        chr_rom_size == ChrRomSize_v1(chr_units, flags7, flags9)
    IN  [format |-> IF IsNes20_v1(flags7) THEN "NES 2.0" ELSE "iNES",
         mapper |-> mapper,
         submapper |-> Submapper_v1(flags7, flags8),
         prg_rom_size |-> PrgRomSize_v1(prg_units, flags7, flags9),
         chr_rom_size |-> chr_rom_size,
         prg_ram_size |-> PrgRamSize_v1(mapper, flags7, flags8, flags10),
         prg_nvram_size |-> IF IsNes20_v1(flags7)
                            THEN _exp_to_size(BitAnd(Shr(flags10, 4), 15)) ELSE 0,
         chr_ram_size |-> ChrRamSize_v1(chr_rom_size, flags7, flags11),
         chr_nvram_size |-> IF IsNes20_v1(flags7)
                            THEN _exp_to_size(BitAnd(Shr(flags11, 4), 15)) ELSE 0,
         mirroring |-> Mirroring_v1(flags6),
         has_battery |-> BitAnd(flags6, 2) # 0,
         has_trainer |-> BitAnd(flags6, 4) # 0,
         four_screen |-> BitAnd(flags6, 8) # 0,
         tv_system |-> TvSystem_v1(flags7, flags9, flags12),
         vs_unisystem |-> VsUnisystem_v1(flags7),
         playchoice10 |-> Playchoice10_v1(flags7)]

\* the INESHeader that parse_ines_file builds once the size checks have passed:
\* the decoded fields and mapper_name, which is looked up only then
INESHeader_v1(h) ==
    [format |-> h.format,
     mapper |-> h.mapper,
     submapper |-> h.submapper,
     mapper_name |-> MapperName(h.mapper),
     prg_rom_size |-> h.prg_rom_size,
     chr_rom_size |-> h.chr_rom_size,
     prg_ram_size |-> h.prg_ram_size,
     prg_nvram_size |-> h.prg_nvram_size,
     chr_ram_size |-> h.chr_ram_size,
     chr_nvram_size |-> h.chr_nvram_size,
     mirroring |-> h.mirroring,
     has_battery |-> h.has_battery,
     has_trainer |-> h.has_trainer,
     four_screen |-> h.four_screen,
     tv_system |-> h.tv_system,
     vs_unisystem |-> h.vs_unisystem,
     playchoice10 |-> h.playchoice10]

\* LoadCartridge_v1 with the PRG-ROM size check made before the trainer check
LoadCartridge_PrgCheckFirst(d, header, h) ==
    LET offset1 == IF h.has_trainer THEN 16 + 512 ELSE 16
        offset2 == offset1 + h.prg_rom_size
    IN  IF Len(d) < offset1 + h.prg_rom_size
        THEN Raise("ValueError",
                   "File truncated: PRG ROM is smaller than indicated by header.")
        ELSE IF Len(d) < offset2 + h.chr_rom_size
        THEN Raise("ValueError",
                   "File truncated: CHR ROM is smaller than indicated by header.")
        ELSE Return([header |-> INESHeader_v1(h),
                     prg_rom |-> Slice(d, offset1, offset1 + h.prg_rom_size),
                     chr_rom |-> Slice(d, offset2, offset2 + h.chr_rom_size),
                     trainer |-> IF h.has_trainer THEN <<Slice(d, 16, 16 + 512)>>
                                 ELSE <<>>,
                     raw_header |-> header])

\* LoadCartridge_v1 with the offset not advanced past the trainer
LoadCartridge_TrainerNotSkipped(d, header, h) ==
    LET offset2 == 16 + h.prg_rom_size
    IN  IF h.has_trainer /\ Len(d) < 16 + 512
        THEN Raise("ValueError", "Header indicates trainer but file is too small.")
        ELSE IF Len(d) < 16 + h.prg_rom_size
        THEN Raise("ValueError",
                   "File truncated: PRG ROM is smaller than indicated by header.")
        ELSE IF Len(d) < offset2 + h.chr_rom_size
        THEN Raise("ValueError",
                   "File truncated: CHR ROM is smaller than indicated by header.")
        ELSE Return([header |-> INESHeader_v1(h),
                     prg_rom |-> Slice(d, 16, 16 + h.prg_rom_size),
                     chr_rom |-> Slice(d, offset2, offset2 + h.chr_rom_size),
                     trainer |-> IF h.has_trainer THEN <<Slice(d, 16, 16 + 512)>>
                                 ELSE <<>>,
                     raw_header |-> header])

\* the data offsets, the three size checks and the Cartridge of parse_ines_file
LoadCartridge_v1(d, header, h) ==
    LET offset0 == 16
        offset1 == IF h.has_trainer THEN offset0 + 512 ELSE offset0
        offset2 == offset1 + h.prg_rom_size
    IN  IF h.has_trainer /\ Len(d) < offset0 + 512
        THEN Raise("ValueError", "Header indicates trainer but file is too small.")
        ELSE IF Len(d) < offset1 + h.prg_rom_size
        THEN Raise("ValueError",
                   "File truncated: PRG ROM is smaller than indicated by header.")
        ELSE IF Len(d) < offset2 + h.chr_rom_size
        THEN Raise("ValueError",
                   "File truncated: CHR ROM is smaller than indicated by header.")
        ELSE Return([header |-> INESHeader_v1(h),
                     prg_rom |-> Slice(d, offset1, offset1 + h.prg_rom_size),
                     chr_rom |-> Slice(d, offset2, offset2 + h.chr_rom_size),
                     trainer |-> IF h.has_trainer
                                 THEN <<Slice(d, offset0, offset0 + 512)>>
                                 ELSE <<>>,
                     raw_header |-> header])

\* parse_ines_file with the magic check made before the length check
parse_ines_file_MagicFirst(d) ==
    IF Slice(d, 0, 4) # Magic
    THEN Raise("ValueError", "Missing NES\\x1A magic; not an iNES/NES2.0 ROM.")
    ELSE IF Len(d) < 16
    THEN Raise("ValueError", "File too small to contain an iNES header.")
    ELSE LoadCartridge_v1(d, Slice(d, 0, 16), DecodeHeader_v1(Slice(d, 0, 16)))

\* parse_ines_file(path), d being the bytes of the file at path
parse_ines_file(d) ==
    IF Len(d) < 16
    THEN Raise("ValueError", "File too small to contain an iNES header.")
    ELSE LET header == Slice(d, 0, 16)
         IN  IF Slice(header, 0, 4) # Magic
             THEN Raise("ValueError", "Missing NES\\x1A magic; not an iNES/NES2.0 ROM.")
             ELSE LoadCartridge_v1(d, header, DecodeHeader_v1(header))

\* the header fields parse_ines_file holds in its local variables when it ends,
\* once the length and magic checks have passed (None if they have not):
\* mapper_name is among them only if the size checks have passed too
HeaderLocals_v1(d) ==
    IF Len(d) >= 16 /\ Slice(Slice(d, 0, 16), 0, 4) = Magic
    THEN LET h == DecodeHeader_v1(Slice(d, 0, 16))
         IN  IF LoadCartridge_v1(d, Slice(d, 0, 16), h).kind = "raise"
             THEN <<h>>
             ELSE <<INESHeader_v1(h)>>
    ELSE <<>>

----------------------------------------------------------------------------
(* v2.0: src/samsoftnesv0.py                                               *)

\* INESHeader._decode_nes2_size(shift)
_decode_nes2_size(shift) == IF shift = 0 THEN 0 ELSE Shl(1, shift + 6)

\* is_nes2 = (flags7 & 0x0C) == 0x08
IsNes2_v2(flags7) == BitAnd(flags7, 12) = 8

\* the mapper number decoded by INESHeader.from_path
Mapper_v2(flags6, flags7, byte8, byte9) ==
    LET mapper0 == BitOr(Shr(flags6, 4), BitAnd(flags7, 240))
        mapper1 == BitOr(mapper0, Shl(BitAnd(byte8, 15), 8))
        mapper2 == BitOr(mapper1, Shl(BitAnd(byte9, 15), 12))
    IN  IF IsNes2_v2(flags7) THEN mapper2 ELSE mapper0

Submapper_v2(flags7, byte8) == IF IsNes2_v2(flags7) THEN Shr(byte8, 4) ELSE 0

\* prg_rom_size_bytes of INESHeader.from_path
PrgRomSize_v2(byte4, flags7, byte9) ==
    LET prg_rom_units == IF IsNes2_v2(flags7)
                         THEN BitOr(byte4, Shl(BitAnd(byte9, 15), 8))
                         ELSE byte4
    IN  prg_rom_units * 16384

\* chr_rom_size_bytes of INESHeader.from_path
ChrRomSize_v2(byte5, flags7, byte9) ==
    LET chr_rom_units == IF IsNes2_v2(flags7)
                         THEN BitOr(byte5, Shl(Shr(byte9, 4), 8))
                         ELSE byte5
    IN  chr_rom_units * 8192

\* prg_ram_size_bytes of INESHeader.from_path
PrgRamSize_v2(flags7, byte8, byte10) ==
    IF IsNes2_v2(flags7)
    THEN _decode_nes2_size(BitAnd(byte10, 15))
    ELSE LET prg_ram_units == IF byte8 # 0 THEN byte8 ELSE 1
         IN  prg_ram_units * 8192

\* chr_ram_size_bytes of INESHeader.from_path
ChrRamSize_v2(flags7, byte11) ==
    IF IsNes2_v2(flags7) THEN _decode_nes2_size(BitAnd(byte11, 15)) ELSE 0

\* mirroring of INESHeader.from_path
Mirroring_v2(flags6) ==
    IF BitAnd(flags6, 8) # 0 THEN "Four-screen"
    ELSE IF BitAnd(flags6, 1) # 0 THEN "Vertical" ELSE "Horizontal"

\* console_type, is_vs_system and is_playchoice10 of INESHeader.from_path
ConsoleType_v2(flags7) == BitAnd(flags7, 3)
IsVsSystem_v2(flags7) == ConsoleType_v2(flags7) = 1
IsPlaychoice10_v2(flags7) == ConsoleType_v2(flags7) = 2

\* tv_system of INESHeader.from_path
TvSystem_v2(flags7, byte9, byte12) ==
    IF IsNes2_v2(flags7)
    THEN LET tv_bits == BitAnd(byte12, 3)
         IN  CASE tv_bits = 0 -> "NTSC"
               [] tv_bits = 1 -> "PAL"
               [] tv_bits = 2 -> "Multi-region"
               [] tv_bits = 3 -> "Hd/Nst Hybrid"
               [] OTHER -> "Unknown"
    ELSE IF BitAnd(byte9, 1) # 0 THEN "PAL" ELSE "NTSC"

\* the INESHeader that from_path builds from the 16 header bytes
DecodeHeader_v2(header) ==
    LET flags6 == At(header, 6)
        flags7 == At(header, 7)
    IN  [prg_rom_size_bytes |-> PrgRomSize_v2(At(header, 4), flags7, At(header, 9)),
         chr_rom_size_bytes |-> ChrRomSize_v2(At(header, 5), flags7, At(header, 9)),
         prg_ram_size_bytes |-> PrgRamSize_v2(flags7, At(header, 8), At(header, 10)),
         prg_nvram_size_bytes |-> IF IsNes2_v2(flags7)
                                  THEN _decode_nes2_size(Shr(At(header, 10), 4)) ELSE 0,
         chr_ram_size_bytes |-> ChrRamSize_v2(flags7, At(header, 11)),
         chr_nvram_size_bytes |-> IF IsNes2_v2(flags7)
                                  THEN _decode_nes2_size(Shr(At(header, 11), 4)) ELSE 0,
         mapper |-> Mapper_v2(flags6, flags7, At(header, 8), At(header, 9)),
         submapper |-> Submapper_v2(flags7, At(header, 8)),
         mirroring |-> Mirroring_v2(flags6),
         has_battery_backed_ram |-> BitAnd(flags6, 2) # 0,
         has_trainer |-> BitAnd(flags6, 4) # 0,
         is_nes2 |-> IsNes2_v2(flags7),
         is_vs_system |-> IsVsSystem_v2(flags7),
         is_playchoice10 |-> IsPlaychoice10_v2(flags7),
         tv_system |-> TvSystem_v2(flags7, At(header, 9), At(header, 12))]

\* from_path comparing only the three letters of the signature
from_path_ThreeByteMagic(d) ==
    LET header == Slice(d, 0, 16)
    IN  IF Len(header) < 16
        THEN Raise("INESParseError", "File too small to contain an iNES header.")
        ELSE IF Slice(header, 0, 3) # Slice(Magic, 0, 3)
        THEN Raise("INESParseError", "Missing iNES magic number (expected 'NES<0x1A>').")
        ELSE Return(DecodeHeader_v2(header))

\* INESHeader.from_path(path), d being the bytes of the file at path
from_path(d) ==
    LET header == Slice(d, 0, 16)
    IN  IF Len(header) < 16
        THEN Raise("INESParseError", "File too small to contain an iNES header.")
        ELSE IF Slice(header, 0, 4) # Magic
        THEN Raise("INESParseError", "Missing iNES magic number (expected 'NES<0x1A>').")
        ELSE Return(DecodeHeader_v2(header))

----------------------------------------------------------------------------
(* The files the parsers are run on.                                       *)

\* the byte at 0-based position i of a file body (period 251, so that ranges
\* that start at different offsets differ)
BodyByte(i) == (i * 37 + 11) % 251

\* a file of n bytes after the 16-byte header
FileOf(header, n) == header \o [i \in 1..n |-> BodyByte(15 + i)]

\* 16 header bytes: magic, bytes 4..12, and zero padding in bytes 13..15
Hdr(magic, b4, b5, f6, f7, b8, b9, b10, b11, b12) ==
    magic \o <<b4, b5, f6, f7, b8, b9, b10, b11, b12, 0, 0, 0>>

\* signatures that are not b"NES\x1A": "MES\x1A", "NES\x00", "NES\n", "nes\x1A", zeros
BadMagics ==
    {<<77, 69, 83, 26>>, <<78, 69, 83, 0>>, <<78, 69, 83, 10>>,
     <<110, 101, 115, 26>>, <<0, 0, 0, 0>>}

\* files of fewer than 16 bytes: prefixes of a good and of a bad header
ShortFiles ==
    {Slice(h, 0, n) : h \in {Hdr(Magic, 2, 1, 1, 0, 0, 0, 0, 0, 0),
                             Hdr(<<77, 69, 83, 26>>, 1, 1, 4, 8, 0, 0, 0, 0, 0)},
                      n \in 0..15}

\* files of 16 bytes or more without the signature
BadMagicFiles ==
    {FileOf(Hdr(m, b4, 1, f6, f7, 0, b9, 0, 0, 0), n) :
        m \in BadMagics, b4 \in {0, 1}, f6 \in {0, 4}, f7 \in {0, 8},
        b9 \in {0, 255}, n \in {0, 1, 512}}

\* bare 16-byte headers that exercise the flag and mapper bytes
FlagHeaders ==
    {Hdr(Magic, 0, b5, f6, f7, b8, b9, 0, 0, 0) :
        b5 \in {0, 1},
        f6 \in {0, 1, 2, 8, 9, 16, 64, 246},
        f7 \in {0, 1, 2, 3, 4, 8, 11, 12, 16, 248},
        b8 \in {0, 1, 53},
        b9 \in {0, 33, 255}}

\* bare 16-byte headers that exercise the NES 2.0 RAM and TV bytes
RamHeaders ==
    {Hdr(Magic, 0, 0, 0, f7, 0, 0, b10, b11, b12) :
        f7 \in {0, 8}, b10 \in {0, 1, 247}, b11 \in {0, 112, 15}, b12 \in 0..3}

\* bare NES 2.0 headers whose bytes 10 and 11 take every exponent 0..15 in each
\* nibble, and every pair of exponents in their two low nibbles
ExponentHeaders ==
    {Hdr(Magic, 0, 0, 0, 8, 0, 0, 16 * (15 - i) + i, 16 * ((j + 5) % 16) + j, 0) :
        i \in 0..15, j \in 0..15}

\* headers of the files that carry a body
LoaderHeaders ==
    {Hdr(Magic, b4, b5, f[1], f[2], 0, 0, 0, 0, 0) :
        b4 \in 0..MaxPrgUnits, b5 \in 0..MaxChrUnits,
        f \in {<<0, 0>>, <<4, 0>>, <<4, 8>>}}

\* body lengths at and around every boundary the loader checks
BodyLengths ==
    {n \in {t + p * 16384 + c * 8192 + e :
                t \in {0, 512}, p \in 0..MaxPrgUnits, c \in 0..MaxChrUnits,
                e \in {0 - 1, 0, MaxExtra}} : n >= 0}

LoaderFiles == {FileOf(h, n) : h \in LoaderHeaders, n \in BodyLengths}

Files ==
    ShortFiles \cup BadMagicFiles \cup FlagHeaders \cup RamHeaders
        \cup ExponentHeaders \cup LoaderFiles

----------------------------------------------------------------------------
(* The state machine: a file is picked, and each parser is run on it once. *)

\* no file has been picked
ParseIdle ==
    /\ data = <<>>
    /\ out1 = NotCalled
    /\ locals1 = <<>>
    /\ out2 = NotCalled

\* no byte count has been picked
FmtIdle ==
    /\ byte_count = 0
    /\ fmt1 = <<>>
    /\ fmt2 = <<>>

\* the status bar text set by create_statusbar; a character outside ASCII is
\* written as its code point
ReadyStatus_v1 == <<"Ready ", "U+2013", " No ROM loaded">>
ReadyStatus_v2 == <<"Ready ", "U+00E2", "U+20AC", "U+201C", " No ROM loaded">>

\* SamsoftEmuNESGUI.__init__ of v1.1 and of v2.0: no ROM, not running
GuiInit ==
    /\ rom_path_v1 = <<>>
    /\ cartridge_v1 = <<>>
    /\ is_running_v1 = FALSE
    /\ status_v1 = ReadyStatus_v1
    /\ rom_path_v2 = <<>>
    /\ ines_header_v2 = <<>>
    /\ is_running_v2 = FALSE
    /\ status_v2 = ReadyStatus_v2
    /\ event = [gui |-> "none", op |-> "__init__", filename |-> ""]

Init ==
    /\ data \in Files
    /\ out1 = NotCalled
    /\ locals1 = <<>>
    /\ out2 = NotCalled
    /\ FmtIdle
    /\ GuiInit

\* v1.1 parses the file
ParseInesFile ==
    /\ out1 = NotCalled
    /\ out1' = parse_ines_file(data)
    /\ locals1' = HeaderLocals_v1(data)
    /\ UNCHANGED <<data, out2, fmtVars, guiVars>>

\* v2.0 parses the file
FromPath ==
    /\ out2 = NotCalled
    /\ out2' = from_path(data)
    /\ UNCHANGED <<data, out1, locals1, fmtVars, guiVars>>

Next == ParseInesFile \/ FromPath

Spec == Init /\ [][Next]_vars

----------------------------------------------------------------------------
(* Vocabulary of the properties.                                           *)

TooShortMsg == "File too small to contain an iNES header."
BadMagicMsg_v1 == "Missing NES\\x1A magic; not an iNES/NES2.0 ROM."
BadMagicMsg_v2 == "Missing iNES magic number (expected 'NES<0x1A>')."
TrainerMsg == "Header indicates trainer but file is too small."
PrgMsg == "File truncated: PRG ROM is smaller than indicated by header."
ChrMsg == "File truncated: CHR ROM is smaller than indicated by header."

Called1 == out1.kind # "none"
Called2 == out2.kind # "none"
Raised1(msg) == out1.kind = "raise" /\ out1.exc = "ValueError" /\ out1.msg = msg
Raised2(msg) == out2.kind = "raise" /\ out2.exc = "INESParseError" /\ out2.msg = msg

\* the file starts with the four signature bytes
HasMagic == Len(data) >= 4 /\ SubSeq(data, 1, 4) = <<78, 69, 83, 26>>
\* the file holds a full header that carries the signature
ValidHeader == Len(data) >= 16 /\ HasMagic
\* header byte i (0-based) of a file with a full header
Byte(i) == data[i + 1]

----------------------------------------------------------------------------
(* C1: every input of fewer than 16 bytes fails with the too-short error   *)
(* in both parsers and yields no header or cartridge; the length check     *)
(* comes before the magic check, so a short input without the signature is *)
(* still reported as too short.                                            *)
C1_TooShort ==
    Len(data) < 16 =>
        /\ Called1 => (Raised1(TooShortMsg) /\ locals1 = <<>>)
        /\ Called2 => Raised2(TooShortMsg)

\* a short file without the signature, rejected as too short by both parsers
C1_Witness ==
    /\ Len(data) \in 4..15
    /\ ~HasMagic
    /\ Raised1(TooShortMsg)
    /\ Raised2(TooShortMsg)

(* C2: every input of 16 bytes or more whose bytes 0-3 are not the         *)
(* signature fails with the bad-magic error in both parsers, whatever the  *)
(* other header bytes and the bytes after the header are.                  *)
C2_BadMagic ==
    (Len(data) >= 16 /\ ~HasMagic) =>
        /\ Called1 => (Raised1(BadMagicMsg_v1) /\ locals1 = <<>>)
        /\ Called2 => Raised2(BadMagicMsg_v2)

\* a file with a body, NES 2.0 bits and the trainer bit set, wrong in its last
\* signature byte only, rejected for its magic by both parsers
C2_Witness ==
    /\ Len(data) > 16
    /\ SubSeq(data, 1, 4) = <<78, 69, 83, 0>>
    /\ Byte(6) = 4 /\ Byte(7) = 8 /\ Byte(9) = 255
    /\ Raised1(BadMagicMsg_v1)
    /\ Raised2(BadMagicMsg_v2)

(* C3: with a valid header, parse_ines_file names the first short region   *)
(* in the order trainer, PRG-ROM, CHR-ROM, and returns no cartridge then.  *)
C3_TruncationOrder ==
    (ValidHeader /\ Called1) =>
        LET h == locals1[1]
            offset == IF h.has_trainer THEN 16 + 512 ELSE 16
            shortTrainer == h.has_trainer /\ Len(data) < 16 + 512
            shortPrg == Len(data) < offset + h.prg_rom_size
            shortChr == Len(data) < offset + h.prg_rom_size + h.chr_rom_size
        IN  /\ locals1 # <<>>
            /\ shortTrainer => Raised1(TrainerMsg)
            /\ (~shortTrainer /\ shortPrg) => Raised1(PrgMsg)
            /\ (~shortTrainer /\ ~shortPrg /\ shortChr) => Raised1(ChrMsg)
            /\ (shortTrainer \/ shortPrg \/ shortChr) => out1.kind = "raise"

\* the trainer error reported for a file that is also too short for its PRG-ROM
C3_Witness ==
    /\ ValidHeader
    /\ Raised1(TrainerMsg)
    /\ locals1[1].prg_rom_size > 0
    /\ Len(data) < 16 + locals1[1].prg_rom_size

(* C4: every Cartridge that parse_ines_file returns has slices of exactly  *)
(* the declared sizes, a 512-byte trainer exactly when has_trainer, the    *)
(* first 16 bytes as raw_header, and its slices are the consecutive ranges *)
(* of the input from offset 16 in the order trainer, PRG-ROM, CHR-ROM;     *)
(* a CHR-ROM size of zero is no error and bytes after CHR are ignored.     *)
C4_CartridgeSlices ==
    /\ Raised1(ChrMsg) => locals1[1].chr_rom_size > 0
    /\ out1.kind = "return" =>
        LET c == out1.value
            h == c.header
            t == IF h.has_trainer THEN 512 ELSE 0
            tr == IF c.trainer = <<>> THEN <<>> ELSE c.trainer[1]
        IN  /\ Len(c.prg_rom) = h.prg_rom_size
            /\ Len(c.chr_rom) = h.chr_rom_size
            /\ (c.trainer # <<>>) <=> h.has_trainer
            /\ Len(tr) = t
            /\ c.raw_header = SubSeq(data, 1, 16)
            /\ Len(data) >= 16 + t + h.prg_rom_size + h.chr_rom_size
            /\ c.raw_header \o tr \o c.prg_rom \o c.chr_rom
                   = SubSeq(data, 1, 16 + t + h.prg_rom_size + h.chr_rom_size)
            /\ h = locals1[1]

\* a cartridge with a trainer, PRG-ROM and CHR-ROM from a file with trailing bytes
C4_Witness ==
    /\ out1.kind = "return"
    /\ out1.value.header.has_trainer
    /\ out1.value.header.prg_rom_size > 0
    /\ out1.value.header.chr_rom_size > 0
    /\ Len(data) > 16 + 512 + out1.value.header.prg_rom_size
                      + out1.value.header.chr_rom_size

\* a cartridge without CHR-ROM: the CHR slice is empty
C4_WitnessEmptyChr ==
    /\ out1.kind = "return"
    /\ out1.value.header.prg_rom_size > 0
    /\ out1.value.header.chr_rom_size = 0
    /\ out1.value.chr_rom = <<>>

----------------------------------------------------------------------------
(* Header fields.  The fields of v1.1 are read from the local variables of *)
(* parse_ines_file (locals1), which C4 shows to be the header of every     *)
(* returned Cartridge; the fields of v2.0 from the returned INESHeader.    *)

\* bits 2-3 of header byte 7 as a number 0..3
FormatBits == (Byte(7) \div 4) % 4
\* both parsers have decoded the header of the file
Decoded == ValidHeader /\ Called1 /\ Called2

\* the mapper number the header bytes 6, 7 and 8 stand for
C5_ExpectedMapper ==
    (Byte(6) \div 16) + 16 * (Byte(7) \div 16)
        + (IF FormatBits = 2 THEN 256 * (Byte(8) % 16) ELSE 0)

(* C5: for every header that passes the magic check the mapper number is   *)
(* (flags6 >> 4) | (flags7 & 0xF0), plus ((byte8 & 0x0F) << 8) for NES 2.0 *)
(* only, so it lies in 0..255 for iNES 1.0 and in 0..4095 for NES 2.0 and  *)
(* no other byte (byte 9 in particular) changes it, in both parsers.       *)
C5_MapperWidth ==
    ValidHeader =>
        /\ Called1 => /\ locals1[1].mapper = C5_ExpectedMapper
                      /\ locals1[1].mapper \in 0..(IF FormatBits = 2 THEN 4095 ELSE 255)
        /\ Called2 => /\ out2.value.mapper = C5_ExpectedMapper
                      /\ out2.value.mapper \in 0..(IF FormatBits = 2 THEN 4095 ELSE 255)

\* the part of C5 that is about parse_ines_file (v1.1) alone
C5_MapperWidth_v1 ==
    (ValidHeader /\ Called1) =>
        /\ locals1[1].mapper = C5_ExpectedMapper
        /\ locals1[1].mapper \in 0..(IF FormatBits = 2 THEN 4095 ELSE 255)

(* C6: the console type is the 2-bit field flags7 & 3: VS System exactly   *)
(* for 1, PlayChoice-10 exactly for 2; so at most one of the two is set    *)
(* and neither for 3, in both parsers.                                     *)
C6_ConsoleType ==
    ValidHeader =>
        /\ Called1 => /\ locals1[1].vs_unisystem <=> (Byte(7) % 4 = 1)
                      /\ locals1[1].playchoice10 <=> (Byte(7) % 4 = 2)
                      /\ ~(locals1[1].vs_unisystem /\ locals1[1].playchoice10)
        /\ Called2 => /\ out2.value.is_vs_system <=> (Byte(7) % 4 = 1)
                      /\ out2.value.is_playchoice10 <=> (Byte(7) % 4 = 2)
                      /\ ~(out2.value.is_vs_system /\ out2.value.is_playchoice10)

\* the part of C6 that is about INESHeader.from_path (v2.0) alone
C6_ConsoleType_v2 ==
    (ValidHeader /\ Called2) =>
        /\ out2.value.is_vs_system <=> (Byte(7) % 4 = 1)
        /\ out2.value.is_playchoice10 <=> (Byte(7) % 4 = 2)

\* the iNES 1.0 PRG-RAM size the header bytes stand for
C7_ExpectedPrgRam ==
    IF Byte(8) # 0 THEN Byte(8) * 8192
    ELSE IF C5_ExpectedMapper \in {1, 4} THEN 8192 ELSE 0

(* C7: for an iNES 1.0 header PRG-RAM is byte8 * 8 KiB when byte 8 is not  *)
(* zero; when it is zero, 8 KiB for the mappers known to need onboard RAM  *)
(* (1 and 4, the only such policy in the source) and 0 for every other     *)
(* mapper; PRG-NVRAM and CHR-NVRAM are 0.  In both parsers.                *)
C7_Ines1PrgRam ==
    (ValidHeader /\ FormatBits # 2) =>
        /\ Called1 => /\ locals1[1].prg_ram_size = C7_ExpectedPrgRam
                      /\ locals1[1].prg_nvram_size = 0
                      /\ locals1[1].chr_nvram_size = 0
        /\ Called2 => /\ out2.value.prg_ram_size_bytes = C7_ExpectedPrgRam
                      /\ out2.value.prg_nvram_size_bytes = 0
                      /\ out2.value.chr_nvram_size_bytes = 0

\* the part of C7 that is about parse_ines_file (v1.1) alone
C7_Ines1PrgRam_v1 ==
    (ValidHeader /\ FormatBits # 2 /\ Called1) =>
        /\ locals1[1].prg_ram_size = C7_ExpectedPrgRam
        /\ locals1[1].prg_nvram_size = 0
        /\ locals1[1].chr_nvram_size = 0

(* C8: for an iNES 1.0 header CHR-RAM is 8 KiB when byte 5 (the CHR-ROM    *)
(* unit count) is zero and 0 otherwise, in both parsers.                   *)
C8_Ines1ChrRam ==
    (ValidHeader /\ FormatBits # 2) =>
        /\ Called1 =>
             locals1[1].chr_ram_size = (IF Byte(5) = 0 THEN 8192 ELSE 0)
        /\ Called2 =>
             out2.value.chr_ram_size_bytes = (IF Byte(5) = 0 THEN 8192 ELSE 0)

\* the part of C8 that is about parse_ines_file (v1.1) alone
C8_Ines1ChrRam_v1 ==
    (ValidHeader /\ FormatBits # 2 /\ Called1) =>
        locals1[1].chr_ram_size = (IF Byte(5) = 0 THEN 8192 ELSE 0)

\* the PRG-ROM and CHR-ROM unit counts the header bytes stand for
C9_PrgUnits == Byte(4) + (IF FormatBits = 2 THEN 256 * (Byte(9) % 16) ELSE 0)
C9_ChrUnits == Byte(5) + (IF FormatBits = 2 THEN 256 * (Byte(9) \div 16) ELSE 0)

(* C9: PRG-ROM size is units * 16384 and CHR-ROM size is units * 8192; the *)
(* units are bytes 4 and 5, extended for NES 2.0 by the low and the high   *)
(* nibble of byte 9 as bits 8-11 (a nibble of 0xF like any other); the     *)
(* sizes are multiples of 16 KiB and 8 KiB and equal in both parsers.      *)
C9_RomSizes ==
    ValidHeader =>
        /\ Called1 => /\ locals1[1].prg_rom_size = C9_PrgUnits * 16384
                      /\ locals1[1].chr_rom_size = C9_ChrUnits * 8192
                      /\ locals1[1].prg_rom_size % 16384 = 0
                      /\ locals1[1].chr_rom_size % 8192 = 0
        /\ Called2 => /\ out2.value.prg_rom_size_bytes = C9_PrgUnits * 16384
                      /\ out2.value.chr_rom_size_bytes = C9_ChrUnits * 8192
                      /\ out2.value.prg_rom_size_bytes % 16384 = 0
                      /\ out2.value.chr_rom_size_bytes % 8192 = 0
        /\ (Called1 /\ Called2) =>
                      /\ locals1[1].prg_rom_size = out2.value.prg_rom_size_bytes
                      /\ locals1[1].chr_rom_size = out2.value.chr_rom_size_bytes

\* a NES 2.0 header whose two extension nibbles are 0xF, decoded by both parsers
C9_Witness ==
    /\ Decoded
    /\ FormatBits = 2 /\ Byte(9) = 255 /\ Byte(5) = 1
    /\ locals1[1].prg_rom_size = 3840 * 16384
    /\ out2.value.chr_rom_size_bytes = 3841 * 8192

(* C10: the format is NES 2.0 exactly when bits 2-3 of byte 7 are binary   *)
(* 10 and iNES 1.0 for the other three values, whatever the other bytes    *)
(* are; so headers that agree on these bits get the same format.           *)
C10_FormatDetection ==
    ValidHeader =>
        /\ Called1 => /\ (locals1[1].format = "NES 2.0") <=> (FormatBits = 2)
                      /\ (locals1[1].format = "iNES") <=> (FormatBits # 2)
        /\ Called2 => (out2.value.is_nes2 <=> (FormatBits = 2))

\* a header with bits 2-3 of byte 7 both set (0x0C) and NES 2.0 style bytes 8-9,
\* decoded as iNES 1.0 by both parsers
C10_Witness ==
    /\ Decoded
    /\ Byte(7) = 12 /\ Byte(8) = 53 /\ Byte(9) = 255
    /\ locals1[1].format = "iNES"
    /\ ~out2.value.is_nes2

\* a header with bits 2-3 of byte 7 equal to binary 10, decoded as NES 2.0
C10_WitnessNes2 ==
    /\ Decoded
    /\ Byte(7) = 248
    /\ locals1[1].format = "NES 2.0"
    /\ out2.value.is_nes2

----------------------------------------------------------------------------
\* the size an exponent field v of 0..15 stands for: 0, or 64 * 2^v
C11_Decode(v) == IF v = 0 THEN 0 ELSE 64 * (2 ^ v)

(* C11: the NES 2.0 exponent decode is total on 0..15 and monotonic, with  *)
(* decode(0) = 0 and decode(v) = 64 * 2^v for v in 1..15; _exp_to_size and *)
(* _decode_nes2_size agree on every exponent; PRG-RAM, PRG-NVRAM, CHR-RAM  *)
(* and CHR-NVRAM are decoded independently from the low and high nibbles   *)
(* of byte 10 and of byte 11.                                              *)
C11_ExponentDecode ==
    (ValidHeader /\ FormatBits = 2) =>
        LET prgRam == Byte(10) % 16
            prgNv == Byte(10) \div 16
            chrRam == Byte(11) % 16
            chrNv == Byte(11) \div 16
        IN  /\ Called1 =>
                /\ locals1[1].prg_ram_size = C11_Decode(prgRam)
                /\ locals1[1].prg_nvram_size = C11_Decode(prgNv)
                /\ locals1[1].chr_ram_size = C11_Decode(chrRam)
                /\ locals1[1].chr_nvram_size = C11_Decode(chrNv)
                /\ (prgRam <= chrRam) =>
                       locals1[1].prg_ram_size <= locals1[1].chr_ram_size
                /\ (prgNv <= chrNv) =>
                       locals1[1].prg_nvram_size <= locals1[1].chr_nvram_size
            /\ Called2 =>
                /\ out2.value.prg_ram_size_bytes = C11_Decode(prgRam)
                /\ out2.value.prg_nvram_size_bytes = C11_Decode(prgNv)
                /\ out2.value.chr_ram_size_bytes = C11_Decode(chrRam)
                /\ out2.value.chr_nvram_size_bytes = C11_Decode(chrNv)
                /\ (prgRam <= chrRam) =>
                       out2.value.prg_ram_size_bytes <= out2.value.chr_ram_size_bytes
            /\ (Called1 /\ Called2) =>
                /\ locals1[1].prg_ram_size = out2.value.prg_ram_size_bytes
                /\ locals1[1].prg_nvram_size = out2.value.prg_nvram_size_bytes
                /\ locals1[1].chr_ram_size = out2.value.chr_ram_size_bytes
                /\ locals1[1].chr_nvram_size = out2.value.chr_nvram_size_bytes

\* a NES 2.0 header with the exponents 15 and 0 in byte 10 and two other
\* exponents in byte 11, decoded by both parsers
C11_Witness ==
    /\ Decoded
    /\ FormatBits = 2
    /\ Byte(10) = 15 /\ Byte(11) = 16 * 8 + 3
    /\ locals1[1].prg_ram_size = 2097152 /\ locals1[1].prg_nvram_size = 0
    /\ out2.value.chr_ram_size_bytes = 512 /\ out2.value.chr_nvram_size_bytes = 16384

----------------------------------------------------------------------------
\* the mirroring mode a parser's mirroring string names
C12_Mode(str) ==
    CASE str \in {"Four-screen VRAM", "Four-screen"} -> "FourScreen"
      [] str = "Vertical" -> "Vertical"
      [] str = "Horizontal" -> "Horizontal"
      [] OTHER -> "none"

\* the mirroring mode bits 3 and 0 of flags6 stand for
C12_Expected ==
    IF (Byte(6) \div 8) % 2 = 1 THEN "FourScreen"
    ELSE IF Byte(6) % 2 = 1 THEN "Vertical" ELSE "Horizontal"

(* C12: mirroring is decoded from flags6 alone: four-screen when bit 3 is  *)
(* set, whatever bit 0 is; otherwise Vertical when bit 0 is set and        *)
(* Horizontal when it is clear; both parsers select the same mode.         *)
C12_Mirroring ==
    ValidHeader =>
        /\ Called1 => /\ C12_Mode(locals1[1].mirroring) = C12_Expected
                      /\ locals1[1].four_screen <=> (C12_Expected = "FourScreen")
        /\ Called2 => C12_Mode(out2.value.mirroring) = C12_Expected
        /\ (Called1 /\ Called2) =>
               C12_Mode(locals1[1].mirroring) = C12_Mode(out2.value.mirroring)

\* a header with bits 3 and 0 of flags6 both set and other bytes non-zero,
\* decoded as four-screen by both parsers
C12_Witness ==
    /\ Decoded
    /\ Byte(6) = 9 /\ Byte(7) = 248 /\ Byte(8) = 53
    /\ locals1[1].mirroring = "Four-screen VRAM"
    /\ out2.value.mirroring = "Four-screen"

\* a header with only bit 0 of flags6 set, decoded as Vertical by both parsers
C12_WitnessVertical ==
    /\ Decoded
    /\ Byte(6) = 1
    /\ locals1[1].mirroring = "Vertical"
    /\ out2.value.mirroring = "Vertical"

----------------------------------------------------------------------------
(* The size formatters.  A float that holds n / 1024^k is exact for the    *)
(* byte counts explored (below 2^31), so it is kept as the fraction n / q; *)
(* n / q >= 1024 is then floor(n / q) >= 1024.                             *)

\* largest byte count of the dense range 0..MaxByteCount given to the formatters
MaxByteCount == 1100

DigitChars == <<"0", "1", "2", "3", "4", "5", "6", "7", "8", "9">>

RECURSIVE IntStr(_)
\* str(n) of a non-negative int, as f"{int(size)}" renders it
IntStr(n) ==
    IF n < 10 THEN <<DigitChars[n + 1]>>
    ELSE IntStr(n \div 10) \o <<DigitChars[(n % 10) + 1]>>

RECURSIVE ZeroPad(_, _)
\* the digits of n, left-padded with zeros to the given width
ZeroPad(n, width) ==
    IF width = 0 THEN <<>>
    ELSE ZeroPad(n \div 10, width - 1) \o <<DigitChars[(n % 10) + 1]>>

RECURSIVE Gcd(_, _)
Gcd(a, b) == IF b = 0 THEN a ELSE Gcd(b, a % b)

\* p / q rounded to the nearest integer, ties to even, as float formatting rounds
RoundHalfEven(p, q) ==
    LET f == p \div q
        r == p % q
    IN  IF 2 * r < q THEN f
        ELSE IF 2 * r > q THEN f + 1
        ELSE IF f % 2 = 0 THEN f ELSE f + 1

\* f"{n / q:.<places>f}"
Fixed(n, q, places) ==
    LET whole == n \div q
        g == Gcd(n % q, q)
        scaled == RoundHalfEven(((n % q) \div g) * (10 ^ places), q \div g)
        carry == scaled \div (10 ^ places)
    IN  IntStr(whole + carry) \o <<".">> \o ZeroPad(scaled % (10 ^ places), places)

RECURSIVE RStrip(_, _)
\* s.rstrip(ch)
RStrip(s, ch) ==
    IF Len(s) > 0 /\ s[Len(s)] = ch THEN RStrip(SubSeq(s, 1, Len(s) - 1), ch) ELSE s

\* units = ["B", "KB", "MB"] of _fmt_size
Units_v1 == <<<<"B">>, <<"K", "B">>, <<"M", "B">>>>
\* units = ["B", "KB", "MB", "GB"] of _format_bytes
Units_v2 == <<<<"B">>, <<"K", "B">>, <<"M", "B">>, <<"G", "B">>>>

RECURSIVE FmtSizeIdx(_, _, _)
\* the while loop of _fmt_size: the idx it ends with, size being n / q
FmtSizeIdx(n, q, idx) ==
    IF n \div q >= 1024 /\ idx < Len(Units_v1) - 1
    THEN FmtSizeIdx(n, q * 1024, idx + 1)
    ELSE idx

\* _fmt_size(n_bytes)
_fmt_size(n_bytes) ==
    IF n_bytes = 0 THEN <<"0", " ", "B">>
    ELSE LET idx == FmtSizeIdx(n_bytes, 1, 0)
             q == 1024 ^ idx
         IN  IF idx = 0
             THEN IntStr(n_bytes \div q) \o <<" ">> \o Units_v1[idx + 1]
             ELSE Fixed(n_bytes, q, 1) \o <<" ">> \o Units_v1[idx + 1]

RECURSIVE FormatBytesFrom(_, _, _)
\* the for loop of _format_bytes from unit number i (1-based), value being n / q
FormatBytesFrom(n, q, i) ==
    IF n \div q < 1024 \/ i = Len(Units_v2)
    THEN IF n % q = 0
         THEN IntStr(n \div q) \o <<" ">> \o Units_v2[i]
         ELSE RStrip(RStrip(Fixed(n, q, 2) \o <<" ">> \o Units_v2[i], "0"), ".")
    ELSE FormatBytesFrom(n, q * 1024, i + 1)

\* INESHeader._format_bytes(byte_count)
_format_bytes(count) ==
    IF count = 0 THEN <<"0", " ", "B">> ELSE FormatBytesFrom(count, 1, 1)

\* the byte counts given to the formatters: a dense range across the first
\* threshold, the ROM sizes of small unit counts, and counts at and around the
\* MB and GB thresholds
ByteCounts ==
    (0..MaxByteCount)
        \cup {k * 8192 : k \in 1..8}
        \cup {1280, 1536, 1587, 40960, 1048575, 1048576, 1048577, 1310720,
              1572864, 1073741823, 1073741824, 1073741825, 1610612736}

FmtInit ==
    /\ byte_count \in ByteCounts
    /\ fmt1 = <<>>
    /\ fmt2 = <<>>
    /\ ParseIdle
    /\ GuiInit

\* v1.1 formats the byte count
FmtSize ==
    /\ fmt1 = <<>>
    /\ fmt1' = <<_fmt_size(byte_count)>>
    /\ UNCHANGED <<byte_count, fmt2, parseVars, guiVars>>

\* v2.0 formats the byte count
FormatBytes ==
    /\ fmt2 = <<>>
    /\ fmt2' = <<_format_bytes(byte_count)>>
    /\ UNCHANGED <<byte_count, fmt1, parseVars, guiVars>>

FmtNext == FmtSize \/ FormatBytes

FmtSpec == FmtInit /\ [][FmtNext]_vars

----------------------------------------------------------------------------
\* the first position of the character ch in the str s, 0 if there is none
C13_PosOf(s, ch) ==
    IF \E i \in 1..Len(s) : s[i] = ch
    THEN CHOOSE i \in 1..Len(s) : s[i] = ch /\ \A j \in 1..(i - 1) : s[j] # ch
    ELSE 0

\* the number of digits between the decimal point and the space of a rendering
C13_DecimalPlaces(s) ==
    IF C13_PosOf(s, ".") = 0 THEN 0 ELSE C13_PosOf(s, " ") - C13_PosOf(s, ".") - 1

\* the unit a rendering ends with: the characters after its space
C13_UnitOf(s) == SubSeq(s, C13_PosOf(s, " ") + 1, Len(s))

\* the number of divisions by 1024: while the value is at least 1024 and a
\* larger unit exists, last being the number of the largest unit
C13_Scale(n, last) ==
    CHOOSE k \in 0..last :
        /\ k = last \/ n \div (1024 ^ k) < 1024
        /\ \A j \in 0..(k - 1) : n \div (1024 ^ j) >= 1024

\* the rendering s of n bytes is in the claimed unit
C13_ScaledRight(s, n, units) == C13_UnitOf(s) = units[C13_Scale(n, Len(units) - 1) + 1]

\* the rendering s of n bytes is an integer when the scaled value is integral
\* and has exactly one decimal place when it is not
C13_RenderedRight(s, n, units) ==
    LET q == 1024 ^ C13_Scale(n, Len(units) - 1)
    IN  /\ (n % q = 0) => (s = IntStr(n \div q) \o <<" ">> \o C13_UnitOf(s))
        /\ (n % q # 0) => (C13_DecimalPlaces(s) = 1)

(* C13: the size formatter is total on non-negative byte counts, divides   *)
(* by 1024 while the value is at least 1024 and a larger unit exists, and  *)
(* renders the scaled value as an integer without a decimal part when it   *)
(* is integral and with exactly one decimal place when it is not; for both *)
(* _fmt_size and _format_bytes.                                            *)
C13_SizeFormat ==
    /\ fmt1 # <<>> => /\ C13_ScaledRight(fmt1[1], byte_count, Units_v1)
                      /\ C13_RenderedRight(fmt1[1], byte_count, Units_v1)
    /\ fmt2 # <<>> => /\ C13_ScaledRight(fmt2[1], byte_count, Units_v2)
                      /\ C13_RenderedRight(fmt2[1], byte_count, Units_v2)

\* the part of C13 that is about the unit: both formatters scale as claimed
C13_Scaling ==
    /\ fmt1 # <<>> => C13_ScaledRight(fmt1[1], byte_count, Units_v1)
    /\ fmt2 # <<>> => C13_ScaledRight(fmt2[1], byte_count, Units_v2)

\* what _fmt_size renders: an integer in B, one decimal place in KB and MB
C13_FmtSizeDecimals ==
    fmt1 # <<>> =>
        C13_DecimalPlaces(fmt1[1]) = (IF C13_UnitOf(fmt1[1]) = <<"B">> THEN 0 ELSE 1)

\* what _format_bytes renders: an integer when the scaled value is integral,
\* two decimal places when it is not
C13_FormatBytesDecimals ==
    fmt2 # <<>> =>
        LET q == 1024 ^ C13_Scale(byte_count, Len(Units_v2) - 1)
        IN  C13_DecimalPlaces(fmt2[1]) = (IF byte_count % q = 0 THEN 0 ELSE 2)

----------------------------------------------------------------------------
(* The GUI sessions.  The state of a SamsoftEmuNESGUI is its emulator      *)
(* state and its status bar; the lines appended to the log widget are not  *)
(* kept.  The files on disk do not change during a session, and file names *)
(* have no directory part, so os.path.basename leaves them as they are.    *)

\* the files on disk, by name
Disk ==
    [a |-> Hdr(Magic, 0, 0, 1, 0, 0, 0, 0, 0, 0),
     b |-> Hdr(Magic, 0, 0, 16, 8, 49, 0, 0, 0, 0),
     t |-> FileOf(Hdr(Magic, 0, 0, 68, 0, 0, 0, 0, 0, 0), 512),
     short |-> SubSeq(Hdr(Magic, 0, 0, 0, 0, 0, 0, 0, 0, 0), 1, 10),
     bad |-> Hdr(<<78, 69, 83, 0>>, 0, 0, 0, 0, 0, 0, 0, 0, 0),
     trunc |-> Hdr(Magic, 1, 0, 0, 0, 0, 0, 0, 0, 0)]

\* what filedialog.askopenfilename can return: "" when the dialog is cancelled,
\* the name of a file on disk, or a name that no file has
Filenames == {""} \cup DOMAIN Disk \cup {"missing"}

\* open(path, "rb") of a name that no file has
NoSuchFile == Raise("FileNotFoundError", "No such file or directory")

\* parse_ines_file(path) on the disk
ParsePath_v1(path) ==
    IF path \in DOMAIN Disk THEN parse_ines_file(Disk[path]) ELSE NoSuchFile

\* INESHeader.from_path(path) on the disk
FromPath_v2(path) ==
    IF path \in DOMAIN Disk THEN from_path(Disk[path]) ELSE NoSuchFile

\* mapper_info of open_rom (v2.0)
MapperInfo_v2(h) ==
    IF h.submapper # 0
    THEN <<"Mapper ", ToString(h.mapper), "/", ToString(h.submapper)>>
    ELSE <<"Mapper ", ToString(h.mapper)>>

\* the handler that ran, for the properties
Event(gui, op, filename) == [gui |-> gui, op |-> op, filename |-> filename]

\* open_rom of v1.1 assigning rom_path before the file is parsed
open_rom_v1_PathFirst(filename) ==
    /\ event' = Event("v1", "open_rom", filename)
    /\ IF filename = ""
       THEN UNCHANGED gui1Vars
       ELSE LET r == ParsePath_v1(filename)
            IN  /\ rom_path_v1' = <<filename>>
                /\ IF r.kind = "raise"
                   THEN UNCHANGED <<cartridge_v1, is_running_v1, status_v1>>
                   ELSE /\ cartridge_v1' = <<r.value>>
                        /\ status_v1' = <<"Loaded ROM: ", filename>>
                        /\ UNCHANGED is_running_v1
    /\ UNCHANGED <<gui2Vars, parseVars, fmtVars>>

\* SamsoftEmuNESGUI.open_rom of v1.1, filename being what the dialog returns
open_rom_v1(filename) ==
    /\ event' = Event("v1", "open_rom", filename)
    /\ IF filename = ""
       THEN UNCHANGED gui1Vars
       ELSE LET r == ParsePath_v1(filename)
            IN  IF r.kind = "raise"
                THEN UNCHANGED gui1Vars
                ELSE /\ rom_path_v1' = <<filename>>
                     /\ cartridge_v1' = <<r.value>>
                     /\ status_v1' = <<"Loaded ROM: ", filename>>
                     /\ UNCHANGED is_running_v1
    /\ UNCHANGED <<gui2Vars, parseVars, fmtVars>>

\* SamsoftEmuNESGUI.run_emulator of v1.1
run_emulator_v1 ==
    /\ event' = Event("v1", "run_emulator", "")
    /\ IF rom_path_v1 = <<>> \/ cartridge_v1 = <<>>
       THEN UNCHANGED gui1Vars
       ELSE /\ is_running_v1' = TRUE
            /\ status_v1' = <<"Running...">>
            /\ UNCHANGED <<rom_path_v1, cartridge_v1>>
    /\ UNCHANGED <<gui2Vars, parseVars, fmtVars>>

\* SamsoftEmuNESGUI.reset_emulator of v1.1
reset_emulator_v1 ==
    /\ event' = Event("v1", "reset_emulator", "")
    /\ IF is_running_v1
       THEN /\ status_v1' = <<"Reset">>
            /\ UNCHANGED <<rom_path_v1, cartridge_v1, is_running_v1>>
       ELSE UNCHANGED gui1Vars
    /\ UNCHANGED <<gui2Vars, parseVars, fmtVars>>

\* SamsoftEmuNESGUI.stop_emulator of v1.1
stop_emulator_v1 ==
    /\ event' = Event("v1", "stop_emulator", "")
    /\ IF is_running_v1
       THEN /\ is_running_v1' = FALSE
            /\ status_v1' = <<"Stopped">>
            /\ UNCHANGED <<rom_path_v1, cartridge_v1>>
       ELSE UNCHANGED gui1Vars
    /\ UNCHANGED <<gui2Vars, parseVars, fmtVars>>

\* SamsoftEmuNESGUI.open_rom of v2.0, filename being what the dialog returns
open_rom_v2(filename) ==
    /\ event' = Event("v2", "open_rom", filename)
    /\ IF filename = ""
       THEN UNCHANGED gui2Vars
       ELSE LET r == FromPath_v2(filename)
            IN  IF r.kind = "raise"
                THEN UNCHANGED gui2Vars
                ELSE /\ rom_path_v2' = <<filename>>
                     /\ ines_header_v2' = <<r.value>>
                     /\ status_v2' = <<"Loaded ROM: ", filename, " | ">>
                                         \o MapperInfo_v2(r.value)
                     /\ UNCHANGED is_running_v2
    /\ UNCHANGED <<gui1Vars, parseVars, fmtVars>>

\* run_emulator of v2.0 without the test for a loaded ROM
run_emulator_v2_NoGuard ==
    /\ event' = Event("v2", "run_emulator", "")
    /\ is_running_v2' = TRUE
    /\ status_v2' = <<"Running...">>
    /\ UNCHANGED <<rom_path_v2, ines_header_v2>>
    /\ UNCHANGED <<gui1Vars, parseVars, fmtVars>>

\* SamsoftEmuNESGUI.run_emulator of v2.0
run_emulator_v2 ==
    /\ event' = Event("v2", "run_emulator", "")
    /\ IF rom_path_v2 = <<>>
       THEN UNCHANGED gui2Vars
       ELSE /\ is_running_v2' = TRUE
            /\ status_v2' = <<"Running...">>
            /\ UNCHANGED <<rom_path_v2, ines_header_v2>>
    /\ UNCHANGED <<gui1Vars, parseVars, fmtVars>>

\* SamsoftEmuNESGUI.reset_emulator of v2.0
reset_emulator_v2 ==
    /\ event' = Event("v2", "reset_emulator", "")
    /\ IF is_running_v2
       THEN /\ status_v2' = <<"Reset">>
            /\ UNCHANGED <<rom_path_v2, ines_header_v2, is_running_v2>>
       ELSE UNCHANGED gui2Vars
    /\ UNCHANGED <<gui1Vars, parseVars, fmtVars>>

\* SamsoftEmuNESGUI.stop_emulator of v2.0
stop_emulator_v2 ==
    /\ event' = Event("v2", "stop_emulator", "")
    /\ IF is_running_v2
       THEN /\ is_running_v2' = FALSE
            /\ status_v2' = <<"Stopped">>
            /\ UNCHANGED <<rom_path_v2, ines_header_v2>>
       ELSE UNCHANGED gui2Vars
    /\ UNCHANGED <<gui1Vars, parseVars, fmtVars>>

GuiSpecInit ==
    /\ GuiInit
    /\ ParseIdle
    /\ FmtIdle

GuiNext ==
    \/ \E filename \in Filenames : open_rom_v1(filename)
    \/ run_emulator_v1
    \/ reset_emulator_v1
    \/ stop_emulator_v1
    \/ \E filename \in Filenames : open_rom_v2(filename)
    \/ run_emulator_v2
    \/ reset_emulator_v2
    \/ stop_emulator_v2

GuiSpec == GuiSpecInit /\ [][GuiNext]_vars

----------------------------------------------------------------------------
(* The GUI claims.                                                         *)

\* the step is open_rom of the given GUI
OpenStep(gui) == event'.op = "open_rom" /\ event'.gui = gui

\* the dialog of the step's open_rom returned a file that parses
OpenSucceeds_v1 ==
    /\ OpenStep("v1")
    /\ event'.filename # ""
    /\ ParsePath_v1(event'.filename).kind = "return"

OpenSucceeds_v2 ==
    /\ OpenStep("v2")
    /\ event'.filename # ""
    /\ FromPath_v2(event'.filename).kind = "return"

\* rom_path and the parsed record are both unset, or the record is the parse of
\* the file rom_path names
C14_Paired ==
    /\ \/ rom_path_v1 = <<>> /\ cartridge_v1 = <<>>
       \/ /\ rom_path_v1 # <<>>
          /\ cartridge_v1 # <<>>
          /\ ParsePath_v1(rom_path_v1[1]) = Return(cartridge_v1[1])
    /\ \/ rom_path_v2 = <<>> /\ ines_header_v2 = <<>>
       \/ /\ rom_path_v2 # <<>>
          /\ ines_header_v2 # <<>>
          /\ FromPath_v2(rom_path_v2[1]) = Return(ines_header_v2[1])

\* a successful open_rom stores the file's name and its parse and keeps
\* is_running; every other step keeps rom_path and the parsed record, and a
\* cancelled or failed open_rom keeps is_running too
C14_Step ==
    /\ IF OpenSucceeds_v1
       THEN /\ rom_path_v1' = <<event'.filename>>
            /\ cartridge_v1' = <<ParsePath_v1(event'.filename).value>>
            /\ is_running_v1' = is_running_v1
       ELSE /\ UNCHANGED <<rom_path_v1, cartridge_v1>>
            /\ OpenStep("v1") => UNCHANGED is_running_v1
    /\ IF OpenSucceeds_v2
       THEN /\ rom_path_v2' = <<event'.filename>>
            /\ ines_header_v2' = <<FromPath_v2(event'.filename).value>>
            /\ is_running_v2' = is_running_v2
       ELSE /\ UNCHANGED <<rom_path_v2, ines_header_v2>>
            /\ OpenStep("v2") => UNCHANGED is_running_v2

\* C14: in both GUIs open_rom replaces the held ROM as a whole and only when
\* the parse succeeds: a cancelled dialog or a failed parse leaves rom_path,
\* the parsed record and is_running as they were, so that rom_path and the
\* record are either both unset or both describe the file opened by the most
\* recent successful open_rom.
C14_OpenRom == []C14_Paired /\ [][C14_Step]_vars

\* a ROM is held and running, and open_rom has just failed on another file
C14_Witness ==
    /\ event.op = "open_rom"
    /\ event.gui = "v1"
    /\ event.filename = "trunc"
    /\ rom_path_v1 = <<"a">>
    /\ cartridge_v1 # <<>>
    /\ is_running_v1

\* a second ROM has replaced the first in the v2.0 GUI
C14_WitnessReplaced ==
    /\ event.op = "open_rom"
    /\ event.gui = "v2"
    /\ event.filename = "b"
    /\ rom_path_v2 = <<"b">>
    /\ ines_header_v2 = <<FromPath_v2("b").value>>
    /\ status_v1 = <<"Loaded ROM: ", "a">>

\* the step is the given handler of the given GUI
HandlerStep(gui, op) == event'.op = op /\ event'.gui = gui

\* is_running implies that a ROM is loaded
C15_RunningHasRom ==
    /\ is_running_v1 => rom_path_v1 # <<>> /\ cartridge_v1 # <<>>
    /\ is_running_v2 => rom_path_v2 # <<>> /\ ines_header_v2 # <<>>

\* what run_emulator, reset_emulator, stop_emulator and open_rom do to
\* is_running and to the held ROM
C15_Step ==
    /\ HandlerStep("v1", "run_emulator")
         => /\ is_running_v1' = (is_running_v1 \/ rom_path_v1 # <<>>)
            /\ UNCHANGED <<rom_path_v1, cartridge_v1>>
    /\ HandlerStep("v2", "run_emulator")
         => /\ is_running_v2' = (is_running_v2 \/ rom_path_v2 # <<>>)
            /\ UNCHANGED <<rom_path_v2, ines_header_v2>>
    /\ HandlerStep("v1", "reset_emulator")
         => UNCHANGED <<rom_path_v1, cartridge_v1, is_running_v1>>
    /\ HandlerStep("v2", "reset_emulator")
         => UNCHANGED <<rom_path_v2, ines_header_v2, is_running_v2>>
    /\ HandlerStep("v1", "stop_emulator")
         => /\ is_running_v1' = FALSE
            /\ UNCHANGED <<rom_path_v1, cartridge_v1>>
    /\ HandlerStep("v2", "stop_emulator")
         => /\ is_running_v2' = FALSE
            /\ UNCHANGED <<rom_path_v2, ines_header_v2>>
    /\ HandlerStep("v1", "open_rom") => UNCHANGED is_running_v1
    /\ HandlerStep("v2", "open_rom") => UNCHANGED is_running_v2

\* C15: in every reachable state of either GUI is_running implies that a ROM
\* is loaded: run_emulator without a ROM leaves is_running False,
\* reset_emulator changes no emulator state, stop_emulator only sets
\* is_running to False, and opening a new ROM while running leaves is_running
\* True.
C15_Running == []C15_RunningHasRom /\ [][C15_Step]_vars

\* a new ROM has been opened while the v2.0 GUI was running
C15_Witness ==
    /\ event.op = "open_rom"
    /\ event.gui = "v2"
    /\ event.filename = "trunc"
    /\ rom_path_v2 = <<"trunc">>
    /\ is_running_v2
    /\ status_v2[1] = "Loaded ROM: "

\* run_emulator was refused in the v1.1 GUI for want of a ROM
C15_WitnessNoRom ==
    /\ event.op = "run_emulator"
    /\ event.gui = "v1"
    /\ rom_path_v1 = <<>>
    /\ ~is_running_v1

====
